---- MODULE Spec2Model ----
(***************************************************************************)
(* MemoryCache (src/golang/main.go): a sync.Map of key -> value in which   *)
(* every write arms a time.AfterFunc that deletes the key after the ttl.   *)
(*                                                                         *)
(* Callers are goroutines (Procs).  A step of the model is one call into   *)
(* sync.Map or into time.AfterFunc, so the two calls of Set, the two of    *)
(* the inserting GetOrSet and the three of Refresh can be interleaved with *)
(* the steps of other callers, with the firing of timers and with the      *)
(* passing of time.                                                        *)
(*                                                                         *)
(* Spec is the safety specification.  FairSpec adds what liveness needs:   *)
(* a clock that goes on until every pending timer is due, and the weak     *)
(* fairness of the clock, of the timers and of the callers' own steps.     *)
(***************************************************************************)
EXTENDS Integers, Sequences, FiniteSets, Bags

\* ---------------------------------------------------------------- bounds
MaxTime   == 1      \* the clock runs from 0 to MaxTime (further in FairSpec)
MaxWrites == 2      \* writing operations issued in one behaviour

Procs  == {"p", "q"}           \* the concurrent callers
Keys   == {"A", "B"}
Values == {1, 2}
TTLs   == {-1, 1, 2}   \* a duration that is not positive, and positive ones
Nil    == 0         \* the nil interface value returned for an absent key
Done   == "-"       \* the actor recorded for a step that ends an operation

VARIABLES
  storage,   \* mc.storage: a function from the present keys to their values
  timers,    \* the pending time.AfterFunc timers: a bag of [key, when]
  now,       \* the clock
  pc,        \* pc[t]: where caller t is inside its operation
  loc,       \* loc[t]: the arguments and locals of the operation t is in
             \* (at: the instant of the call, kept for Refresh alone)
  issued,    \* number of writing operations issued so far
  \* ---- history variables: they record what happened, the code has none
  ev,        \* the step just taken: what, on which key, what it returned, and
             \* who took it when the step leaves the caller inside its operation
  pev,       \* on a Get step: what the step right before it, when that step
             \* completed an operation on the same key, says of the key
  last,      \* last[k]: the most recent write made to k (NoWrite when none)
  xsince,    \* xsince[k]: Expire(k) or ExpireAll was called since k's last write
  fsince,    \* fsince[k]: a timer of k has fired since k's last write
  ins,       \* ins[k]: GetOrSet calls that found k absent since k was last
             \* removed (by Expire, ExpireAll or a timer), or since the start
  cleared,   \* an ExpireAll ran with no operation in progress, no write since
  given      \* given[k]: the values that Set and inserting GetOrSet calls on k
             \* were called with

vars == <<storage, timers, now, pc, loc, issued,
          ev, pev, last, xsince, fsince, ins, cleared, given>>

\* ------------------------------------------------------------- sync.Map
\* Load: the value stored for the key, and whether there is one.
Load(m, k) == IF k \in DOMAIN m THEN <<m[k], TRUE>> ELSE <<Nil, FALSE>>

\* A Store that keeps the value of a key that is present.
StoreKeepOld(m, k, v) ==
  [x \in DOMAIN m \cup {k} |-> IF x \in DOMAIN m THEN m[x] ELSE v]

\* A Store into a map that holds one entry: it evicts every other key.
StoreEvict(m, k, v) == [x \in {k} |-> v]

\* Store: sets the value for the key, replacing any value it had.
Store(m, k, v) == [x \in DOMAIN m \cup {k} |-> IF x = k THEN v ELSE m[x]]

\* A Delete that empties the map.
DeleteAll(m, k) == [x \in {} |-> Nil]

\* Delete: removes the key, whatever its value.
Delete(m, k) == [x \in DOMAIN m \ {k} |-> m[x]]

\* A LoadOrStore that does not look: it stores and reports loaded = FALSE.
LoadOrStoreRacy(m, k, v) ==
  [m |-> Store(m, k, v), actual |-> v, loaded |-> FALSE]

\* A LoadOrStore that overwrites the value it found.
LoadOrStoreOverwrite(m, k, v) ==
  IF Load(m, k)[2]
    THEN [m |-> Store(m, k, v), actual |-> Load(m, k)[1], loaded |-> TRUE]
    ELSE [m |-> Store(m, k, v), actual |-> v, loaded |-> FALSE]

\* LoadOrStore: the existing value and loaded = TRUE when the key is present;
\* otherwise it stores the given value and returns it with loaded = FALSE.
LoadOrStore(m, k, v) ==
  IF Load(m, k)[2]
    THEN [m |-> m, actual |-> Load(m, k)[1], loaded |-> TRUE]
    ELSE [m |-> Store(m, k, v), actual |-> v, loaded |-> FALSE]

\* A LoadAndDelete that loads and does not delete.
LoadOnly(m, k) ==
  [m |-> m, value |-> Load(m, k)[1], loaded |-> Load(m, k)[2]]

\* LoadAndDelete: removes the key and returns what Load found.
LoadAndDelete(m, k) ==
  [m |-> Delete(m, k), value |-> Load(m, k)[1], loaded |-> Load(m, k)[2]]

\* A Clear that removes one key.
ClearOne(m) ==
  IF DOMAIN m = {} THEN m ELSE Delete(m, CHOOSE k \in DOMAIN m : TRUE)

\* Clear: removes every key.
Clear(m) == [x \in {} |-> Nil]

\* ------------------------------------------------------ time.AfterFunc
\* A timer that waits at least one unit of time, also for a duration that is
\* not positive.
WhenAtLeastOne(t, d) == IF d <= 0 THEN t + 1 ELSE t + d

\* The instant at which a timer of duration d armed at instant t is due:
\* a duration that is not positive is due at once.
When(t, d) == IF d <= 0 THEN t ELSE t + d

\* An AfterFunc that arms nothing for a duration that is not positive.
AfterFuncSkip(ts, k, t, d) ==
  IF d <= 0 THEN ts ELSE ts (+) SetToBag({[key |-> k, when |-> When(t, d)]})

\* An AfterFunc that stops the timers already pending for the key (a Reset).
AfterFuncReset(ts, k, t, d) ==
  [tm \in {x \in BagToSet(ts) : x.key # k} |-> ts[tm]]
    (+) SetToBag({[key |-> k, when |-> When(t, d)]})

\* AfterFunc(ttl, func() { mc.storage.Delete(key) }): one more pending timer.
AfterFunc(ts, k, t, d) == ts (+) SetToBag({[key |-> k, when |-> When(t, d)]})

\* A timer that may run at any instant.
DueAlways(tm, t) == TRUE

\* A pending timer may run its function once its instant is reached.
Due(tm, t) == tm.when <= t

\* ------------------------------------------------------------ the state
NoLoc == [key |-> "", val |-> Nil, ttl |-> 0, at |-> 0]
NoEv  == [proc |-> Done, op |-> "none", key |-> "", val |-> Nil,
          ok |-> FALSE, solo |-> FALSE]

Step(t, op, k, v, ok, solo) ==
  [proc |-> t, op |-> op, key |-> k, val |-> v, ok |-> ok, solo |-> solo]

\* What a Get of k records of the step e taken right before it: a Set of k whose
\* two steps ran with no step of anyone else in between, or an Expire of k.
NoPrev == [op |-> "none", val |-> Nil]
Prev(e, k) ==
  IF e.key = k /\ ((e.op = "Set" /\ e.solo) \/ e.op = "Expire")
    THEN [op |-> e.op, val |-> e.val]
    ELSE NoPrev

\* The instant until which a write made at instant t with ttl d keeps its key.
Until(t, d) == IF d <= 0 THEN t ELSE t + d

NoWrite == [kind |-> "none", val |-> Nil, until |-> 0, first |-> FALSE, early |-> FALSE]

\* The record of a write of v to k, called at instant t with ttl d: whether it is
\* the first write to k, and whether it is a Set that follows a Set that has
\* returned and whose ttl has not elapsed, with no Expire(k) or ExpireAll in
\* between.
Write(kind, k, v, t, d) ==
  [kind  |-> kind, val |-> v, until |-> Until(t, d),
   first |-> last[k] = NoWrite,
   early |-> /\ kind = "Set" /\ last[k].kind = "Set"
             /\ \A u \in Procs : pc[u] # "idle" => loc[u].key # k
             /\ now < last[k].until /\ ~xsince[k]]

Init ==
  /\ storage = [x \in {} |-> Nil]
  /\ timers = EmptyBag
  /\ now = 0
  /\ pc = [t \in Procs |-> "idle"]
  /\ loc = [t \in Procs |-> NoLoc]
  /\ issued = 0
  /\ ev = NoEv
  /\ pev = NoPrev
  /\ last = [k \in Keys |-> NoWrite]
  /\ xsince = [k \in Keys |-> FALSE]
  /\ fsince = [k \in Keys |-> FALSE]
  /\ ins = [k \in Keys |-> 0]
  /\ cleared = FALSE
  /\ given = [k \in Keys |-> {}]

\* The history of a write of kind to k: v at instant t with ttl d.
Wrote(kind, k, v, t, d) ==
  /\ last' = [last EXCEPT ![k] = Write(kind, k, v, t, d)]
  /\ xsince' = [xsince EXCEPT ![k] = FALSE]
  /\ fsince' = [fsince EXCEPT ![k] = FALSE]
  /\ given' = IF kind = "Refresh" THEN given
                                 ELSE [given EXCEPT ![k] = @ \cup {v}]

\* ------------------------------------------------------------------ Set
\* mc.storage.Store(key, value)
SetStore(t, k, v, d) ==
  /\ pc[t] = "idle"
  /\ issued < MaxWrites
  /\ storage' = Store(storage, k, v)
  /\ pc' = [pc EXCEPT ![t] = "set_arm"]
  /\ loc' = [loc EXCEPT ![t] = [key |-> k, val |-> v, ttl |-> d, at |-> 0]]
  /\ issued' = issued + 1
  /\ ev' = Step(t, "SetStore", k, v, TRUE, TRUE)
  /\ pev' = NoPrev
  /\ Wrote("Set", k, v, now, d)
  /\ cleared' = FALSE
  /\ UNCHANGED <<timers, now, ins>>

\* time.AfterFunc(ttl, func() { mc.storage.Delete(key) }); return
SetArm(t) ==
  /\ pc[t] = "set_arm"
  /\ timers' = AfterFunc(timers, loc[t].key, now, loc[t].ttl)
  /\ pc' = [pc EXCEPT ![t] = "idle"]
  /\ loc' = [loc EXCEPT ![t] = NoLoc]
  /\ ev' = Step(Done, "Set", loc[t].key, loc[t].val, TRUE,
                ev.proc = t /\ ev.op = "SetStore")
  /\ pev' = NoPrev
  /\ UNCHANGED <<storage, now, issued,
                 last, given, xsince, fsince, ins, cleared>>

\* ------------------------------------------------------------- GetOrSet
\* A GetOrSet that renews the lifetime of a key it found: it arms a timer on a
\* hit as well.
GetOrSetRenew(t, k, v, d) ==
  LET r == LoadOrStore(storage, k, v) IN
  /\ pc[t] = "idle"
  /\ r.loaded \/ issued < MaxWrites
  /\ storage' = r.m
  /\ IF r.loaded
       THEN /\ ev' = Step(Done, "GetOrSet", k, r.actual, TRUE, TRUE)
            /\ timers' = AfterFunc(timers, k, now, d)
            /\ UNCHANGED <<pc, loc, issued,
                           last, given, xsince, fsince, ins, cleared>>
       ELSE /\ pc' = [pc EXCEPT ![t] = "gos_arm"]
            /\ loc' = [loc EXCEPT ![t] =
                         [key |-> k, val |-> r.actual, ttl |-> d, at |-> 0]]
            /\ issued' = issued + 1
            /\ ev' = Step(t, "LoadOrStore", k, r.actual, FALSE, TRUE)
            /\ Wrote("GetOrSet", k, v, now, d)
            /\ ins' = [ins EXCEPT ![k] = @ + 1]
            /\ cleared' = FALSE
            /\ timers' = timers
  /\ pev' = NoPrev
  /\ UNCHANGED now

\* val, loaded := mc.storage.LoadOrStore(key, value); when loaded, return.
GetOrSet(t, k, v, d) ==
  LET r == LoadOrStore(storage, k, v) IN
  /\ pc[t] = "idle"
  /\ r.loaded \/ issued < MaxWrites
  /\ storage' = r.m
  /\ IF r.loaded
       THEN /\ ev' = Step(Done, "GetOrSet", k, r.actual, TRUE, TRUE)
            /\ UNCHANGED <<pc, loc, issued,
                           last, given, xsince, fsince, ins, cleared>>
       ELSE /\ pc' = [pc EXCEPT ![t] = "gos_arm"]
            /\ loc' = [loc EXCEPT ![t] =
                         [key |-> k, val |-> r.actual, ttl |-> d, at |-> 0]]
            /\ issued' = issued + 1
            /\ ev' = Step(t, "LoadOrStore", k, r.actual, FALSE, TRUE)
            /\ Wrote("GetOrSet", k, v, now, d)
            /\ ins' = [ins EXCEPT ![k] = @ + 1]
            /\ cleared' = FALSE
  /\ pev' = NoPrev
  /\ UNCHANGED <<timers, now>>

\* if !loaded { time.AfterFunc(ttl, ...) }; return val, loaded
GetOrSetArm(t) ==
  /\ pc[t] = "gos_arm"
  /\ timers' = AfterFunc(timers, loc[t].key, now, loc[t].ttl)
  /\ pc' = [pc EXCEPT ![t] = "idle"]
  /\ loc' = [loc EXCEPT ![t] = NoLoc]
  /\ ev' = Step(Done, "GetOrSet", loc[t].key, loc[t].val, FALSE,
                ev.proc = t /\ ev.op = "LoadOrStore")
  /\ pev' = NoPrev
  /\ UNCHANGED <<storage, now, issued,
                 last, given, xsince, fsince, ins, cleared>>

\* ------------------------------------------------------------------ Get
\* A Get with sliding expiration: a hit arms a new timer for the key.
GetSliding(t, k) ==
  /\ pc[t] = "idle"
  /\ timers' = IF Load(storage, k)[2] THEN AfterFunc(timers, k, now, 1)
                                      ELSE timers
  /\ ev' = Step(Done, "Get", k, Load(storage, k)[1], Load(storage, k)[2], TRUE)
  /\ pev' = Prev(ev, k)
  /\ UNCHANGED <<storage, now, pc, loc, issued,
                 last, given, xsince, fsince, ins, cleared>>

\* return mc.storage.Load(key)
Get(t, k) ==
  /\ pc[t] = "idle"
  /\ ev' = Step(Done, "Get", k, Load(storage, k)[1], Load(storage, k)[2], TRUE)
  /\ pev' = Prev(ev, k)
  /\ UNCHANGED <<storage, timers, now, pc, loc, issued,
                 last, given, xsince, fsince, ins, cleared>>

\* --------------------------------------------------------------- Expire
\* return mc.storage.LoadAndDelete(key)
Expire(t, k) ==
  LET r == LoadAndDelete(storage, k) IN
  /\ pc[t] = "idle"
  /\ storage' = r.m
  /\ ev' = Step(Done, "Expire", k, r.value, r.loaded, TRUE)
  /\ pev' = NoPrev
  /\ xsince' = [xsince EXCEPT ![k] = TRUE]
  /\ ins' = [ins EXCEPT ![k] = 0]
  /\ UNCHANGED <<timers, now, pc, loc, issued, last, given, fsince, cleared>>

\* -------------------------------------------------------------- Refresh
\* A Refresh that does not look at ok: it goes on to Set whatever Get returned.
RefreshGetNoCheck(t, k, d) ==
  /\ pc[t] = "idle"
  /\ issued < MaxWrites
  /\ pc' = [pc EXCEPT ![t] = "refresh_store"]
  /\ loc' = [loc EXCEPT ![t] =
               [key |-> k, val |-> Load(storage, k)[1], ttl |-> d, at |-> now]]
  /\ issued' = issued + 1
  /\ ev' = Step(t, "RefreshGet", k, Load(storage, k)[1], TRUE, TRUE)
  /\ cleared' = FALSE
  /\ pev' = NoPrev
  /\ UNCHANGED <<storage, timers, now, last, given, xsince, fsince, ins>>

\* value, ok := mc.Get(key); if !ok, return false.
RefreshGet(t, k, d) ==
  LET r == Load(storage, k) IN
  /\ pc[t] = "idle"
  /\ IF r[2]
       THEN /\ issued < MaxWrites
            /\ pc' = [pc EXCEPT ![t] = "refresh_store"]
            /\ loc' = [loc EXCEPT ![t] =
                         [key |-> k, val |-> r[1], ttl |-> d, at |-> now]]
            /\ issued' = issued + 1
            /\ ev' = Step(t, "RefreshGet", k, r[1], TRUE, TRUE)
            /\ cleared' = FALSE
       ELSE /\ ev' = Step(Done, "Refresh", k, Nil, FALSE, TRUE)
            /\ UNCHANGED <<pc, loc, issued, cleared>>
  /\ pev' = NoPrev
  /\ UNCHANGED <<storage, timers, now, last, given, xsince, fsince, ins>>

\* A Refresh that re-stores the value only when the key still holds it (a
\* compare-and-swap).
RefreshStoreIfSame(t) ==
  /\ pc[t] = "refresh_store"
  /\ storage' = IF Load(storage, loc[t].key) = <<loc[t].val, TRUE>>
                  THEN Store(storage, loc[t].key, loc[t].val)
                  ELSE storage
  /\ pc' = [pc EXCEPT ![t] = "refresh_arm"]
  /\ ev' = Step(t, "RefreshStore", loc[t].key, loc[t].val,
                Load(storage, loc[t].key) = <<loc[t].val, TRUE>>,
                ev.proc = t /\ ev.op = "RefreshGet")
  /\ pev' = NoPrev
  /\ Wrote("Refresh", loc[t].key, loc[t].val, loc[t].at, loc[t].ttl)
  /\ UNCHANGED <<timers, now, loc, issued, ins, cleared>>

\* A Refresh whose call of Set passes the ttl where the value belongs (value
\* is an interface{}: any argument is accepted).
RefreshStoreTTL(t) ==
  /\ pc[t] = "refresh_store"
  /\ storage' = Store(storage, loc[t].key, loc[t].ttl)
  /\ pc' = [pc EXCEPT ![t] = "refresh_arm"]
  /\ ev' = Step(t, "RefreshStore", loc[t].key, loc[t].val,
                Load(storage, loc[t].key) = <<loc[t].val, TRUE>>,
                ev.proc = t /\ ev.op = "RefreshGet")
  /\ pev' = NoPrev
  /\ Wrote("Refresh", loc[t].key, loc[t].val, loc[t].at, loc[t].ttl)
  /\ UNCHANGED <<timers, now, loc, issued, ins, cleared>>

\* mc.Set(key, value, ttl): its mc.storage.Store(key, value). The step records
\* whether the key still held the value that Get had read.
RefreshStore(t) ==
  /\ pc[t] = "refresh_store"
  /\ storage' = Store(storage, loc[t].key, loc[t].val)
  /\ pc' = [pc EXCEPT ![t] = "refresh_arm"]
  /\ ev' = Step(t, "RefreshStore", loc[t].key, loc[t].val,
                Load(storage, loc[t].key) = <<loc[t].val, TRUE>>,
                ev.proc = t /\ ev.op = "RefreshGet")
  /\ pev' = NoPrev
  /\ Wrote("Refresh", loc[t].key, loc[t].val, loc[t].at, loc[t].ttl)
  /\ UNCHANGED <<timers, now, loc, issued, ins, cleared>>

\* mc.Set(key, value, ttl): its time.AfterFunc(ttl, ...); return true
RefreshArm(t) ==
  /\ pc[t] = "refresh_arm"
  /\ timers' = AfterFunc(timers, loc[t].key, now, loc[t].ttl)
  /\ pc' = [pc EXCEPT ![t] = "idle"]
  /\ loc' = [loc EXCEPT ![t] = NoLoc]
  /\ ev' = Step(Done, "Refresh", loc[t].key, loc[t].val, TRUE,
                ev.proc = t /\ ev.op = "RefreshStore" /\ ev.solo)
  /\ pev' = NoPrev
  /\ UNCHANGED <<storage, now, issued,
                 last, given, xsince, fsince, ins, cleared>>

\* ------------------------------------------------------------ ExpireAll
\* mc.storage.Clear()
ExpireAll(t) ==
  /\ pc[t] = "idle"
  /\ storage' = Clear(storage)
  /\ ev' = Step(Done, "ExpireAll", "", Nil, TRUE, TRUE)
  /\ pev' = NoPrev
  /\ xsince' = [k \in Keys |-> TRUE]
  /\ ins' = [k \in Keys |-> 0]
  /\ cleared' = (\A u \in Procs : pc[u] = "idle")
  /\ UNCHANGED <<timers, now, pc, loc, issued, last, given, fsince>>

\* --------------------------------------------------- the timer subsystem
\* A timer that is bound to its write: it deletes the key only when the ttl of
\* the key's most recent write has elapsed.
FireOwnWrite(tm) ==
  /\ BagIn(tm, timers)
  /\ Due(tm, now)
  /\ storage' = IF now < last[tm.key].until THEN storage
                                            ELSE Delete(storage, tm.key)
  /\ timers' = timers (-) SetToBag({tm})
  /\ ev' = Step(Done, "Fire", tm.key, Nil, Load(storage, tm.key)[2], TRUE)
  /\ pev' = NoPrev
  /\ fsince' = [fsince EXCEPT ![tm.key] = TRUE]
  /\ ins' = [ins EXCEPT ![tm.key] = 0]
  /\ UNCHANGED <<now, pc, loc, issued, last, given, xsince, cleared>>

\* A due timer runs func() { mc.storage.Delete(key) } in its own goroutine.
Fire(tm) ==
  /\ BagIn(tm, timers)
  /\ Due(tm, now)
  /\ storage' = Delete(storage, tm.key)
  /\ timers' = timers (-) SetToBag({tm})
  /\ ev' = Step(Done, "Fire", tm.key, Nil, Load(storage, tm.key)[2], TRUE)
  /\ pev' = NoPrev
  /\ fsince' = [fsince EXCEPT ![tm.key] = TRUE]
  /\ ins' = [ins EXCEPT ![tm.key] = 0]
  /\ UNCHANGED <<now, pc, loc, issued, last, given, xsince, cleared>>

\* Time passes.
Tick ==
  /\ now < MaxTime
  /\ now' = now + 1
  /\ ev' = Step(Done, "Tick", "", Nil, TRUE, TRUE)
  /\ pev' = NoPrev
  /\ UNCHANGED <<storage, timers, pc, loc, issued,
                 last, given, xsince, fsince, ins, cleared>>

Next ==
  \/ \E t \in Procs, k \in Keys, v \in Values, d \in TTLs : SetStore(t, k, v, d)
  \/ \E t \in Procs : SetArm(t)
  \/ \E t \in Procs, k \in Keys, v \in Values, d \in TTLs : GetOrSet(t, k, v, d)
  \/ \E t \in Procs : GetOrSetArm(t)
  \/ \E t \in Procs, k \in Keys : Get(t, k)
  \/ \E t \in Procs, k \in Keys : Expire(t, k)
  \/ \E t \in Procs, k \in Keys, d \in TTLs : RefreshGet(t, k, d)
  \/ \E t \in Procs : RefreshStore(t)
  \/ \E t \in Procs : RefreshArm(t)
  \/ \E t \in Procs : ExpireAll(t)
  \/ \E tm \in BagToSet(timers) : Fire(tm)
  \/ Tick

Spec == Init /\ [][Next]_vars

\* ------------------------------------------------------------- notions
\* ------------------------------------------------------------- liveness
\* Time passes beyond MaxTime as far as a pending timer needs it to be due.
TickToDeadline ==
  /\ now >= MaxTime
  /\ \E tm \in BagToSet(timers) : ~Due(tm, now)
  /\ now' = now + 1
  /\ ev' = Step(Done, "Tick", "", Nil, TRUE, TRUE)
  /\ pev' = NoPrev
  /\ UNCHANGED <<storage, timers, pc, loc, issued,
                 last, given, xsince, fsince, ins, cleared>>

\* The steps that take a caller on inside the method it has entered.
Continue(t) ==
  \/ SetArm(t)
  \/ GetOrSetArm(t)
  \/ RefreshStore(t)
  \/ RefreshArm(t)

LiveNext ==
  \/ Next
  \/ TickToDeadline

\* Time passes, the runtime runs a due timer's function, and a goroutine inside
\* a method is scheduled again.
Fairness ==
  /\ WF_vars(Tick \/ TickToDeadline)
  /\ WF_vars(\E tm \in BagToSet(timers) : Fire(tm))
  /\ \A t \in Procs : WF_vars(Continue(t))

FairSpec == Init /\ [][LiveNext]_vars /\ Fairness

\* The number of pending timers of key k.
NumPending(k) ==
  BagCardinality([tm \in {x \in BagToSet(timers) : x.key = k} |-> timers[tm]])

\* The pending timers of key k, with their multiplicities.
Pending(k) == [tm \in {x \in BagToSet(timers) : x.key = k} |-> timers[tm]]

\* The labels of the steps that act on one key.
KeySteps == {"SetStore", "Set", "LoadOrStore", "GetOrSet", "Get", "Expire",
             "RefreshGet", "RefreshStore", "Refresh", "Fire"}

\* A caller is inside an operation on k.
InProgress(k) == \E t \in Procs : pc[t] # "idle" /\ loc[t].key = k

\* No Expire(k), ExpireAll or timer has touched k since its last write.
Untouched(k) == ~xsince[k] /\ ~fsince[k]

\* ---------------------------------------------------------------- claims
\* C1: a key's lifetime is governed by its most recent write's TTL: when a
\* Set of k follows a Set of k whose ttl had not elapsed, with no Expire(k),
\* no ExpireAll and no further write, k holds the second value at every instant
\* before the second ttl has elapsed (here: once the second Set has returned).
C1_LastWriteGoverns ==
  \A k \in Keys :
    (/\ last[k].kind = "Set" /\ last[k].early
     /\ ~xsince[k] /\ ~InProgress(k) /\ now < last[k].until)
      => Load(storage, k) = <<last[k].val, TRUE>>

\* C2: a Get of k that comes right after a Set(k, v, ttl), the two steps of the
\* Set and the Get running with no other step in between, returns (v, true).
C2_SetThenGet ==
  (ev.op = "Get" /\ pev.op = "Set") => (ev.val = pev.val /\ ev.ok)

\* The Get follows the Set while a timer armed earlier for the key is pending
\* and due.
C2_Witness ==
  /\ ev.op = "Get" /\ pev.op = "Set"
  /\ NumPending(ev.key) >= 2
  /\ \A tm \in BagToSet(timers) : tm.key = ev.key => Due(tm, now)

\* C3: after a single Set(k, v, ttl) on a key that nothing else has written or
\* removed, k holds v at every instant before ttl has elapsed since the Set, and
\* is absent once the timer of the Set has run.
C3_SingleSetLifetime ==
  \A k \in Keys :
    (last[k].kind = "Set" /\ last[k].first /\ ~xsince[k])
      => /\ now < last[k].until => Load(storage, k) = <<last[k].val, TRUE>>
         /\ fsince[k] => Load(storage, k) = <<Nil, FALSE>>

\* The timer of a single Set with a ttl of 1 has just removed the key, at
\* instant 1.
C3_Witness ==
  /\ ev.op = "Fire" /\ ev.ok
  /\ last[ev.key].kind = "Set" /\ last[ev.key].first /\ ~xsince[ev.key]
  /\ last[ev.key].until = 1 /\ now = 1
  /\ ~Load(storage, ev.key)[2]

\* C4: after a Refresh(k, ttl) that found k present, k stays present for the new
\* ttl measured from the call, when no Expire(k) or ExpireAll is called and
\* whatever timers were armed for k before (here: once the Refresh has returned).
C4_RefreshKeepsKey ==
  \A k \in Keys :
    (/\ last[k].kind = "Refresh"
     /\ ~xsince[k] /\ ~InProgress(k) /\ now < last[k].until)
      => Load(storage, k)[2]

\* C5: a GetOrSet that finds k absent stores its value v1 and returns
\* (v1, false); a GetOrSet that finds k present returns the stored value with
\* true and leaves the store alone, so that after an inserting GetOrSet of v1 a
\* later GetOrSet on the still present key returns (v1, true) and k still
\* holds v1.
C5_GetOrSet ==
  [][ /\ ev'.op = "LoadOrStore" =>
           /\ ~Load(storage, ev'.key)[2]
           /\ Load(storage', ev'.key) = <<ev'.val, TRUE>>
           /\ \E t \in Procs : /\ pc[t] = "idle" /\ pc'[t] = "gos_arm"
                               /\ loc'[t].key = ev'.key /\ loc'[t].val = ev'.val
      /\ (ev'.op = "GetOrSet" /\ ~ev'.ok) =>
           \E t \in Procs : /\ pc[t] = "gos_arm" /\ pc'[t] = "idle"
                            /\ loc[t].key = ev'.key /\ loc[t].val = ev'.val
      /\ (ev'.op = "GetOrSet" /\ ev'.ok) =>
           /\ Load(storage, ev'.key) = <<ev'.val, TRUE>>
           /\ storage' = storage
           /\ (last[ev'.key].kind = "GetOrSet" /\ Untouched(ev'.key))
                => ev'.val = last[ev'.key].val
    ]_vars

\* A GetOrSet has returned loaded = true on a key whose last write is an
\* inserting GetOrSet that has returned.
C5_Witness ==
  /\ ev.op = "GetOrSet" /\ ev.ok
  /\ last[ev.key].kind = "GetOrSet" /\ Untouched(ev.key) /\ ~InProgress(ev.key)
  /\ Load(storage, ev.key) = <<last[ev.key].val, TRUE>>

\* C6: of the GetOrSet calls that run on the same absent key, one finds it
\* absent: between two removals of k at most one GetOrSet returns loaded = false;
\* and while that insertion is all that has happened to k, every GetOrSet on k
\* returns the inserted value and one timer is armed for k (pending, or about to
\* be armed by the inserting caller).
C6_OneInserter ==
  \A k \in Keys :
    /\ ins[k] <= 1
    /\ (last[k].kind = "GetOrSet" /\ last[k].first /\ Untouched(k)) =>
         /\ NumPending(k)
              + Cardinality({t \in Procs : pc[t] = "gos_arm" /\ loc[t].key = k}) = 1
         /\ (ev.op = "GetOrSet" /\ ev.key = k) => ev.val = last[k].val

\* A GetOrSet returns loaded = true while the GetOrSet of another caller, which
\* inserted the key, has not returned yet.
C6_Witness ==
  \E t \in Procs :
    /\ pc[t] = "gos_arm"
    /\ ev.op = "GetOrSet" /\ ev.ok /\ ev.key = loc[t].key /\ ev.val = loc[t].val
    /\ last[ev.key].first

\* C7: Expire(k) returns what is stored under k and whether k is present, and
\* leaves k absent (a store without k unchanged); a Get(k) right after it
\* returns (nil, false).
C7_Expire ==
  [][ /\ ev'.op = "Expire" =>
           /\ <<ev'.val, ev'.ok>> = Load(storage, ev'.key)
           /\ ~Load(storage', ev'.key)[2]
           /\ \A k \in Keys \ {ev'.key} : Load(storage', k) = Load(storage, k)
           /\ ~ev'.ok => storage' = storage
      /\ (ev'.op = "Get" /\ pev'.op = "Expire") => (ev'.val = Nil /\ ~ev'.ok)
    ]_vars

\* A Get right after an Expire that removed a value whose timer is not due.
C7_Witness ==
  /\ ev.op = "Get" /\ pev.op = "Expire" /\ pev.val # Nil
  /\ \E tm \in BagToSet(timers) : tm.key = ev.key /\ ~Due(tm, now)

\* C8: after an ExpireAll that ran with no operation in progress, and as long as
\* no write is issued, the store is empty and every Get returns (nil, false).
C8_ExpireAll ==
  cleared => /\ DOMAIN storage = {}
             /\ ev.op = "Get" => (ev.val = Nil /\ ~ev.ok)

\* A Get after such an ExpireAll, on a key that was set and has a timer pending.
C8_Witness ==
  /\ cleared /\ ev.op = "Get"
  /\ last[ev.key] # NoWrite /\ NumPending(ev.key) > 0

\* C9: a key with no pending timer and no operation in progress is absent, and
\* a Get of it returns (nil, false): every present key has a pending timer or a
\* caller about to arm one.
C9_AbsentWithoutTimer ==
  /\ \A k \in Keys : Load(storage, k)[2] => (NumPending(k) > 0 \/ InProgress(k))
  /\ (ev.op = "Get" /\ NumPending(ev.key) = 0 /\ ~InProgress(ev.key))
       => (ev.val = Nil /\ ~ev.ok)

\* A Get of a key that was written and whose timers have all fired.
C9_Witness ==
  /\ ev.op = "Get" /\ last[ev.key] # NoWrite
  /\ fsince[ev.key] /\ ~xsince[ev.key]
  /\ NumPending(ev.key) = 0 /\ ~InProgress(ev.key)

\* C10: a Refresh goes on to write only when it found the key present; on an
\* absent key it returns false and changes neither the store nor the pending
\* timers (nor the caller's state).
C10_RefreshAbsent ==
  [][ /\ ev'.op = "RefreshGet" => Load(storage, ev'.key)[2]
      /\ (ev'.op = "Refresh" /\ ~ev'.ok) =>
           /\ ~Load(storage, ev'.key)[2]
           /\ UNCHANGED <<storage, timers, pc, loc>>
    ]_vars

\* A Refresh has returned false on a key that was written, was removed and
\* still has a timer pending.
C10_Witness ==
  /\ ev.op = "Refresh" /\ ~ev.ok
  /\ last[ev.key] # NoWrite /\ NumPending(ev.key) > 0

\* C11: Get(k) is a pure read: a Get step changes neither the stored value or
\* presence of any key nor the pending timers (nor the clock or any caller).
C11_GetPure ==
  [][ ev'.op = "Get" =>
        /\ UNCHANGED <<storage, timers, now, pc, loc>>
        /\ ev'.val = Load(storage', ev'.key)[1]
        /\ ev'.ok = Load(storage', ev'.key)[2]
    ]_vars

\* A Get has hit a key while both keys were present and timers were pending,
\* one of them due.
C11_Witness ==
  /\ ev.op = "Get" /\ ev.ok
  /\ DOMAIN storage = Keys
  /\ \E tm \in BagToSet(timers) : Due(tm, now)
  /\ \A k \in Keys : NumPending(k) > 0

\* C12: operations on different keys are independent: a step of Set, GetOrSet,
\* Get, Expire or Refresh on key k, and the firing of a timer armed for k, leave
\* the presence, the value and the pending timers of every other key unchanged.
C12_OtherKeys ==
  [][ ev'.op \in KeySteps =>
        \A k \in Keys \ {ev'.key} :
          /\ Load(storage', k) = Load(storage, k)
          /\ Pending(k)' = Pending(k)
    ]_vars

\* A timer of one key has removed it while the other key was present with a
\* timer that was due as well.
C12_Witness ==
  /\ ev.op = "Fire" /\ ev.ok
  /\ \E k \in Keys \ {ev.key} :
       /\ Load(storage, k)[2]
       /\ \E tm \in BagToSet(timers) : tm.key = k /\ Due(tm, now)

\* C13: a timer is bound to its key only, not to a value or to the write that
\* armed it: when it fires it removes whatever is then stored under the key, so
\* the key is absent after every firing, also when a later write's ttl has not
\* elapsed.
C13_FireRemovesWhatever ==
  [][ ev'.op = "Fire" =>
        /\ ev'.ok = Load(storage, ev'.key)[2]
        /\ ~Load(storage', ev'.key)[2]
        /\ \A k \in Keys \ {ev'.key} : Load(storage', k) = Load(storage, k)
    ]_vars

\* The timer of an earlier Set(k, v1, t1) has fired after a later Set of k
\* returned: k was present and is now absent although the later ttl has not
\* elapsed, and the later Set's own timer is still pending.
C13_Witness ==
  /\ ev.op = "Fire" /\ ev.ok
  /\ last[ev.key].kind = "Set" /\ last[ev.key].early
  /\ ~xsince[ev.key] /\ ~InProgress(ev.key)
  /\ now < last[ev.key].until
  /\ ~Load(storage, ev.key)[2]
  /\ NumPending(ev.key) = 1

\* C14: pending timers are never cancelled. The bag of pending timers loses an
\* element only by that timer firing; the return of a Set, of a successful
\* Refresh and of an inserting GetOrSet adds exactly one timer, of its key; every
\* other step (Get, Expire, ExpireAll, a failed Refresh, a loaded GetOrSet, the
\* Store steps, the clock) adds and removes none.
C14_NeverCancelled ==
  [][ /\ ( \/ ev'.op = "Set"
           \/ ev'.op = "Refresh" /\ ev'.ok
           \/ ev'.op = "GetOrSet" /\ ~ev'.ok ) =>
             \E tm \in BagToSet(timers') :
               /\ tm.key = ev'.key
               /\ timers' = timers (+) SetToBag({tm})
      /\ ev'.op = "Fire" =>
             \E tm \in BagToSet(timers) :
               /\ tm.key = ev'.key /\ Due(tm, now)
               /\ timers' = timers (-) SetToBag({tm})
      /\ ev'.op \in {"SetStore", "LoadOrStore", "RefreshGet", "RefreshStore",
                     "Get", "Expire", "ExpireAll", "Tick"} => timers' = timers
      /\ (ev'.op = "Refresh" /\ ~ev'.ok) => timers' = timers
      /\ (ev'.op = "GetOrSet" /\ ev'.ok) => timers' = timers
    ]_vars

\* A Set has returned on a key that already had a pending timer: two timers
\* are pending for it, and the other key has none.
C14_Witness ==
  /\ ev.op = "Set"
  /\ NumPending(ev.key) = 2
  /\ BagCardinality(timers) = 2

\* C15: a GetOrSet on a present key leaves the store and the pending timers
\* untouched: the stored value is unchanged (and is the one returned), no timer
\* is armed and the lifetime of the key is not extended; the caller has returned.
C15_GetOrSetPresent ==
  [][ (ev'.op = "GetOrSet" /\ ev'.ok) =>
        /\ ev'.key \in DOMAIN storage
        /\ UNCHANGED <<storage, timers, now, pc, loc>>
        /\ ev'.val = storage[ev'.key]
    ]_vars

\* A GetOrSet has found a key that a Set wrote; the key's one timer is pending
\* and not yet due.
C15_Witness ==
  /\ ev.op = "GetOrSet" /\ ev.ok
  /\ last[ev.key].kind = "Set"
  /\ NumPending(ev.key) = 1
  /\ \A tm \in BagToSet(timers) : tm.key = ev.key => ~Due(tm, now)

C17_RemovalCauses ==
  [][ \A k \in Keys :
        (Load(storage, k)[2] /\ ~Load(storage', k)[2]) =>
          \/ ev'.op = "Fire" /\ ev'.key = k /\ ev'.ok
          \/ ev'.op = "Expire" /\ ev'.key = k /\ ev'.ok
          \/ ev'.op = "ExpireAll"
    ]_vars

\* An Expire has removed a key between the Store and the AfterFunc of a write
\* to it, while the other key stays present with its timer due.
C17_Witness ==
  /\ ev.op = "Expire" /\ ev.ok
  /\ InProgress(ev.key) /\ ~Load(storage, ev.key)[2]
  /\ \E k \in Keys \ {ev.key} :
       /\ Load(storage, k)[2]
       /\ \E tm \in BagToSet(timers) : tm.key = k /\ Due(tm, now)

\* C18: a Set and an inserting GetOrSet with a ttl that is not positive do not
\* fail: the value is stored, the call returns having armed one timer of the
\* key that is due at once, and when that timer fires the key is absent.
C18_NonPositiveTTL ==
  [][ /\ \A t \in Procs :
           (pc[t] = "idle" /\ pc'[t] \in {"set_arm", "gos_arm"}
              /\ loc'[t].ttl <= 0) =>
             Load(storage', loc'[t].key) = <<loc'[t].val, TRUE>>
      /\ \A t \in Procs :
           (pc[t] \in {"set_arm", "gos_arm"} /\ pc'[t] = "idle"
              /\ loc[t].ttl <= 0) =>
             \E tm \in BagToSet(timers') :
               /\ tm.key = loc[t].key /\ Due(tm, now')
               /\ timers' = timers (+) SetToBag({tm})
      /\ \A tm \in BagToSet(timers) :
           (Due(tm, now) /\ timers' = timers (-) SetToBag({tm})) =>
             ~Load(storage', tm.key)[2]
    ]_vars

\* At instant 0 a GetOrSet has inserted a key with a ttl that is not positive
\* and its timer has fired: the key was present and is absent.
C18_Witness ==
  /\ now = 0 /\ ev.op = "Fire" /\ ev.ok
  /\ last[ev.key].kind = "GetOrSet" /\ last[ev.key].first
  /\ last[ev.key].until = 0 /\ ~xsince[ev.key]
  /\ ~InProgress(ev.key) /\ NumPending(ev.key) = 0
  /\ ~Load(storage, ev.key)[2]

\* C20: value provenance. A value returned with a true flag by Get(k),
\* Expire(k) or GetOrSet(k, ...) was passed before as the value of a Set or of
\* an inserting GetOrSet on that same key; so was every stored value and every
\* value a caller holds inside an operation: Refresh and the timers introduce
\* no value and move none to another key.
C20_Provenance ==
  /\ (ev.op \in {"Get", "Expire", "GetOrSet"} /\ ev.ok) =>
       ev.val \in given[ev.key]
  /\ \A k \in DOMAIN storage : storage[k] \in given[k]
  /\ \A t \in Procs : pc[t] # "idle" => loc[t].val \in given[loc[t].key]

\* A Get has returned, for a key whose last write is a Refresh of an earlier
\* Set, the one value ever given for that key.
C20_Witness ==
  /\ ev.op = "Get" /\ ev.ok
  /\ last[ev.key].kind = "Refresh" /\ ~last[ev.key].first
  /\ given[ev.key] = {ev.val}
  /\ NumPending(ev.key) = 1 /\ BagCardinality(timers) = 1

\* C19: every armed timer eventually fires: when from some point on no Set, no
\* inserting GetOrSet and no successful Refresh is issued, eventually no timer
\* is pending and the store is empty, and it stays so.
C19_EventuallyEmpty ==
  (<>[][issued' = issued]_vars) =>
     <>[](DOMAIN storage = {} /\ timers = EmptyBag)

\* Both allowed writes were issued, with timers due at different instants after
\* MaxTime; all of them have fired and the store is empty.
C19_Witness ==
  /\ issued = MaxWrites /\ ev.op = "Fire" /\ ev.ok
  /\ now > MaxTime + 1
  /\ DOMAIN storage = {} /\ timers = EmptyBag
  /\ \A t \in Procs : pc[t] = "idle"

====
